---- MODULE Spec2Model ----
(***************************************************************************)
(* DFS Scores (src/app.py): the scoring functions, the stat parsers and    *)
(* the fetch / normalize pipeline get_nba_data with its result cache.      *)
(*                                                                         *)
(* Numbers with decimals are fixed point.  A score before rounding is in   *)
(* thousandths (PTS = 1 is 1000, REB = 1.25 is 1250), round(score, 2) is   *)
(* Round2, and a returned score is in hundredths (45.50 is 4550).          *)
(* A raw stat token is a sequence of one-character strings.                *)
(***************************************************************************)
EXTENDS Integers, Sequences, FiniteSets, TLC

(* ------------------------------ bounds ------------------------------- *)
MaxStat == 10
MaxTokLen == 3
MaxGames == 2
MaxTeams == 2
MaxRoster == 2
MaxRecords == 2
MaxCalls == 2
MaxTicks == 2
TickSecs == 30

(* ------------------------- program constants -------------------------- *)
BonusThreshold == 10
TripleDouble == 3
DoubleDouble == 2
TTL == 60

(* ------------------------------ scoring ------------------------------ *)
\* round(x, 2): x in thousandths, the result in hundredths, ties to even
Round2(m) ==
    LET q == m \div 10
        r == m % 10
    IN  IF r < 5 THEN q
        ELSE IF r > 5 THEN q + 1
        ELSE IF q % 2 = 0 THEN q ELSE q + 1

categories_over_10(pts, reb, ast, stl, blk) ==
      (IF pts >= BonusThreshold THEN 1 ELSE 0)
    + (IF reb >= BonusThreshold THEN 1 ELSE 0)
    + (IF ast >= BonusThreshold THEN 1 ELSE 0)
    + (IF stl >= BonusThreshold THEN 1 ELSE 0)
    + (IF blk >= BonusThreshold THEN 1 ELSE 0)

\* a faulty variant of calculate_draftkings: the two bonus tests are independent ifs
calculate_draftkings_both(pts, three_pm, reb, ast, stl, blk, to) ==
    LET score == pts * 1000 + three_pm * 500 + reb * 1250 + ast * 1500
                 + stl * 2000 + blk * 2000 - to * 500
        n == categories_over_10(pts, reb, ast, stl, blk)
    IN  Round2(score + (IF n >= TripleDouble THEN 3000 ELSE 0)
                     + (IF n >= DoubleDouble THEN 1500 ELSE 0))

calculate_draftkings(pts, three_pm, reb, ast, stl, blk, to) ==
    LET score == pts * 1000 + three_pm * 500 + reb * 1250 + ast * 1500
                 + stl * 2000 + blk * 2000 - to * 500
        n == categories_over_10(pts, reb, ast, stl, blk)
    IN  IF n >= TripleDouble THEN Round2(score + 3000)
        ELSE IF n >= DoubleDouble THEN Round2(score + 1500)
        ELSE Round2(score)

\* a faulty variant of calculate_fanduel: the DraftKings double-double bonus leaks in
calculate_fanduel_bonus(pts, reb, ast, stl, blk, to) ==
    Round2(pts * 1000 + reb * 1200 + ast * 1500 + stl * 3000 + blk * 3000
           - to * 1000
           + (IF categories_over_10(pts, reb, ast, stl, blk) >= DoubleDouble
              THEN 1500 ELSE 0))

calculate_fanduel(pts, reb, ast, stl, blk, to) ==
    Round2(pts * 1000 + reb * 1200 + ast * 1500 + stl * 3000 + blk * 3000
           - to * 1000)

(* ------------------------------ parsing ------------------------------ *)
Digits == <<"0", "1", "2", "3", "4", "5", "6", "7", "8", "9">>

IsDigitChar(c) == \E i \in DOMAIN Digits : Digits[i] = c

DigitVal(c) == (CHOOSE i \in DOMAIN Digits : Digits[i] = c) - 1

\* str.isdigit(): non-empty and every character a digit
isdigit(s) == Len(s) > 0 /\ \A i \in DOMAIN s : IsDigitChar(s[i])

RECURSIVE DecimalValue(_)
DecimalValue(s) ==
    IF Len(s) = 0 THEN 0
    ELSE DecimalValue(SubSeq(s, 1, Len(s) - 1)) * 10 + DigitVal(s[Len(s)])

\* the outcome of an expression that may raise
Value(v) == [ok |-> TRUE, v |-> v]
Raised == [ok |-> FALSE, v |-> 0]

\* int(s) of a string over the token alphabet: ValueError unless all digits
int(s) == IF isdigit(s) THEN Value(DecimalValue(s)) ELSE Raised

\* a stats value is a string (a token) or some other JSON value
Str(s) == [isStr |-> TRUE, s |-> s]
NotAString == [isStr |-> FALSE, s |-> <<>>]

\* val.split('-')[0]
BeforeDash(s) ==
    LET k == CHOOSE i \in DOMAIN s : s[i] = "-" /\ \A j \in 1..(i - 1) : s[j] # "-"
    IN  SubSeq(s, 1, k - 1)

HasDash(s) == \E i \in DOMAIN s : s[i] = "-"

\* val.isdigit() on a value that is no string raises AttributeError
parse_stat(val) ==
    IF ~val.isStr THEN Raised
    ELSE IF isdigit(val.s) THEN int(val.s) ELSE Value(0)

\* '-' in val on a value that is no string raises TypeError
parse_shooting(val) ==
    IF ~val.isStr THEN Raised
    ELSE IF HasDash(val.s) THEN int(BeforeDash(val.s))
         ELSE IF isdigit(val.s) THEN int(val.s) ELSE Value(0)

(* --------------------------- the record ------------------------------ *)
\* lines 147-163: the two scores and the record of one athlete
ScoredPlayer(name, pos, team_name, pts, reb, ast, stl, blk, to, three_pm) ==
    [Player |-> name, Pos |-> pos, Team |-> team_name,
     PTS |-> pts, REB |-> reb, AST |-> ast, STL |-> stl, BLK |-> blk,
     ThreePM |-> three_pm, TO |-> to,
     FanDuel |-> calculate_fanduel(pts, reb, ast, stl, blk, to),
     DraftKings |-> calculate_draftkings(pts, three_pm, reb, ast, stl, blk, to)]

(* ------------------------------ inputs ------------------------------- *)
Dates == {"20261103", "20261104"}

Required == {"PTS", "REB", "AST", "STL", "BLK", "TO", "3PT"}

\* the label sequence of a statistics block: two orders with every required
\* label, and each of them with one required label taken out
WithoutLabel(L, l) == SelectSeq(L, LAMBDA x : x # l)

CompleteLabels == {<<"MIN", "3PT", "REB", "AST", "STL", "BLK", "TO", "PTS">>,
                   <<"PTS", "REB", "AST", "STL", "BLK", "TO", "3PT">>}

LabelSeqs == CompleteLabels
             \cup {WithoutLabel(L, l) : L \in CompleteLabels, l \in Required}

\* the raw values of one athlete, by label
StatLine(min, pts, reb, ast, stl, blk, to, tpt) ==
    [l \in Required \cup {"MIN"} |->
        CASE l = "MIN" -> min [] l = "PTS" -> pts [] l = "REB" -> reb
          [] l = "AST" -> ast [] l = "STL" -> stl [] l = "BLK" -> blk
          [] l = "TO" -> to [] OTHER -> tpt]

Players ==
    { [name |-> "A", pos |-> "G",
       line |-> StatLine(Str(<<"3", "4">>), Str(<<"2", "0">>), Str(<<"1", "0">>),
                         Str(<<"5">>), Str(<<"2">>), Str(<<"1">>), Str(<<"3">>),
                         Str(<<"3", "-", "7">>))],
      [name |-> "B", pos |-> "C",
       line |-> StatLine(Str(<<"4", "0">>), Str(<<"x">>), Str(<<>>),
                         Str(<<"1", "0">>), Str(<<"-", "1">>), Str(<<"1", "1">>),
                         Str(<<"2">>), Str(<<"5">>))],
      [name |-> "D", pos |-> "F",
       line |-> StatLine(Str(<<"1", "2">>), Str(<<"8">>), Str(<<"3">>),
                         Str(<<"2">>), Str(<<"0">>), Str(<<"0">>), Str(<<"1">>),
                         Str(<<"-", "7">>))],
      [name |-> "E", pos |-> "F",
       line |-> StatLine(Str(<<"9">>), NotAString, Str(<<"3">>),
                         Str(<<"2">>), Str(<<"0">>), Str(<<"0">>), Str(<<"1">>),
                         Str(<<"0", "-", "1">>))] }

\* the values of a stat line in the order of the labels
Align(line, L) == [i \in 1..Len(L) |-> line[L[i]]]

\* the athlete entries of a team whose statistics block has the labels L:
\* a full entry per player, an entry with no 'athlete' key, one with no
\* 'stats' key, one whose stats are null or empty, one whose stats are short
Entries(L) ==
    { [athleteKey |-> TRUE, statsKey |-> TRUE, name |-> p.name, pos |-> p.pos,
       stats |-> Align(p.line, L)] : p \in Players }
    \cup
    { [athleteKey |-> k[1], statsKey |-> k[2], name |-> "A", pos |-> "G",
       stats |-> SubSeq(Align((CHOOSE p \in Players : p.name = "A").line, L),
                        1, k[3])] :
        k \in { <<FALSE, TRUE, Len(L)>>, <<TRUE, FALSE, 0>>,
                <<TRUE, TRUE, 0>>, <<TRUE, TRUE, Len(L) - 1>> } }

Rosters(n, L) == [1..n -> Entries(L)]

TeamNames == {"LAL"}

\* one team object of boxscore.players, without its athletes
TeamHeads ==
    { [block |-> b, name |-> tn, labels |-> <<>>, n |-> 0] :
          b \in {"none", "broken"}, tn \in TeamNames }
    \cup { [block |-> "stats", name |-> tn, labels |-> L, n |-> n] :
              tn \in TeamNames, L \in LabelSeqs, n \in 0..MaxRoster }

\* the scoreboard response: the fetch or the JSON parse fails, or it has a
\* list of events, each well formed (TRUE) or lacking a key (FALSE)
ScoreboardResponses ==
    { [ok |-> FALSE, events |-> <<>>] }
    \cup { [ok |-> TRUE, events |-> e] :
              e \in UNION { [1..n -> BOOLEAN] : n \in 0..MaxGames } }

\* the summary response of one game: the fetch or the JSON parse fails, the
\* JSON has no boxscore.players, or boxscore.players has n teams
BoxResponses ==
    { [kind |-> "fail", n |-> 0], [kind |-> "nobox", n |-> 0] }
    \cup { [kind |-> "box", n |-> n] : n \in 0..MaxTeams }

StatVals == {0, 1} \cup ((BonusThreshold - 1) .. MaxStat)

TokenChars == {"0", "3", "7", "-", "x"}

Tokens == { Str(s) : s \in UNION { [1..n -> TokenChars] : n \in 0..MaxTokLen } }
          \cup { NotAString }

(* ------------------------------- state ------------------------------- *)
VARIABLES
    pc,        \* get_nba_data: scoreboard, game, team, athlete, done;
               \* the cached function: idle, body
    date,      \* date_str
    games,     \* the games of the scoreboard, in its order
    gi,        \* index of the current game in games
    nTeams,    \* number of teams of the current box score
    ti,        \* index of the current team
    team_name, \* displayName of the current team
    labels,    \* labels of the current team's statistics block
    nAth,      \* number of athlete entries of the current team
    ai,        \* index of the current athlete entry
    result,    \* all_player_stats
    returned,  \* what the latest call returned
    netlog,    \* the network calls and the pauses of the run, in order
    sbResp,    \* the scoreboard response of the run
    gameLog,   \* per fetched game: its id, the outcome of the fetch, and the
               \* length of all_player_stats when it was fetched
    last,      \* the athlete entry the loop has just handled, with its outcome
    unread,    \* the entries of a roster that the loop left unread
    lackSeen,  \* a team of the current game was skipped for a missing label
    cache,     \* st.cache_data: key -> <<>> or <<[val, at]>>
    now,       \* the clock, in seconds
    calls,     \* number of calls of the cached function so far
    netCalls,  \* number of network calls so far
    stored,    \* per date, the latest completed run of the body:
               \* <<>> or <<[val, at]>>
    args,      \* the arguments of a scoring call
    dkOut,     \* calculate_draftkings(args), once called
    fdOut,     \* calculate_fanduel(args), once called
    recOut,    \* the record built from args, once built
    tok,       \* the argument of a parser call
    statOut,   \* parse_stat(tok), once called
    shootOut   \* parse_shooting(tok), once called

pureVars == <<args, dkOut, fdOut, recOut, tok, statOut, shootOut>>

bodyVars == <<gi, nTeams, ti, team_name, labels, nAth, ai, games, result,
              netlog, sbResp, gameLog, last, unread, lackSeen>>

cacheVars == <<cache, now, calls, netCalls, stored>>

vars == <<pc, date, returned, bodyVars, cacheVars, pureVars>>

(* --------------------------- the scoreboard --------------------------- *)
\* a faulty variant of ScoreboardGames: a malformed event is left out
ScoreboardGamesLenient(resp) ==
    IF ~resp.ok THEN <<>>
    ELSE LET Pick[n \in 0..Len(resp.events)] ==
                 IF n = 0 THEN <<>>
                 ELSE IF resp.events[n] THEN Append(Pick[n - 1], [id |-> n])
                 ELSE Pick[n - 1]
         IN  Pick[Len(resp.events)]

\* lines 60-71: the games of a response, or none when anything raises
ScoreboardGames(resp) ==
    IF ~resp.ok THEN <<>>
    ELSE IF \E k \in DOMAIN resp.events : ~resp.events[k] THEN <<>>
    ELSE [k \in DOMAIN resp.events |-> [id |-> k]]

(* --------------------------- one athlete ------------------------------ *)
\* labels.index(l)
index(L, l) == CHOOSE i \in DOMAIN L : L[i] = l /\ \A j \in 1..(i - 1) : L[j] # l

HasAllLabels(L) == \A l \in Required : \E i \in DOMAIN L : L[i] = l

\* lines 119-165 for one entry: KeyError outside the inner try ("keyerror"),
\* the basic validation ("skip"), an exception inside the inner try ("drop"),
\* or the record ("emit")
AthleteOutcome(entry, L, team) ==
    IF ~entry.athleteKey \/ ~entry.statsKey
    THEN [kind |-> "keyerror", rec |-> <<>>]
    ELSE IF Len(entry.stats) = 0 \/ Len(entry.stats) < Len(L)
    THEN [kind |-> "skip", rec |-> <<>>]
    ELSE LET pts == parse_stat(entry.stats[index(L, "PTS")])
             reb == parse_stat(entry.stats[index(L, "REB")])
             ast == parse_stat(entry.stats[index(L, "AST")])
             stl == parse_stat(entry.stats[index(L, "STL")])
             blk == parse_stat(entry.stats[index(L, "BLK")])
             to == parse_stat(entry.stats[index(L, "TO")])
             three_pm == parse_shooting(entry.stats[index(L, "3PT")])
         IN  IF pts.ok /\ reb.ok /\ ast.ok /\ stl.ok /\ blk.ok /\ to.ok
                /\ three_pm.ok
             THEN [kind |-> "emit",
                   rec |-> <<ScoredPlayer(entry.name, entry.pos, team, pts.v,
                                          reb.v, ast.v, stl.v, blk.v, to.v,
                                          three_pm.v)>>]
             ELSE [kind |-> "drop", rec |-> <<>>]

(* ------------------------- control positions -------------------------- *)
Frame(p, g, nt, t, tn, L, na, a) ==
    [pc |-> p, gi |-> g, nTeams |-> nt, ti |-> t, team_name |-> tn,
     labels |-> L, nAth |-> na, ai |-> a]

AtReturn == Frame("done", 0, 0, 0, "", <<>>, 0, 0)

AtGame(g) == Frame("game", g, 0, 0, "", <<>>, 0, 0)

AtTeam(t, nt) == Frame("team", gi, nt, t, "", <<>>, 0, 0)

AtAthlete(a, tn, L, na) == Frame("athlete", gi, nTeams, ti, tn, L, na, a)

\* a faulty variant of AfterGame: the return of line 172 sits in the loop
AfterGameReturns == AtReturn

\* line 83: the next game, or the return of line 172
AfterGame == IF gi < Len(games) THEN AtGame(gi + 1) ELSE AtReturn

\* line 97: the next team, or the end of the game
AfterTeam == IF ti < nTeams THEN AtTeam(ti + 1, nTeams) ELSE AfterGame

\* line 118: the next athlete, or the end of the team
AfterAthlete ==
    IF ai < nAth THEN AtAthlete(ai + 1, team_name, labels, nAth) ELSE AfterTeam

Call(g) == [ev |-> "BOX", id |-> g]
ScoreboardCall == [ev |-> "SB", id |-> 0]
Sleep == [ev |-> "SLEEP", id |-> 0]

\* line 170 runs when the body of the game loop ends without its continue
WithSleep(f, log) == IF f.pc \in {"game", "done"} THEN Append(log, Sleep) ELSE log

\* the step to the frame f; at the return, the value returned
Goto(f, res, log) ==
    /\ pc' = f.pc /\ gi' = f.gi /\ nTeams' = f.nTeams /\ ti' = f.ti
    /\ team_name' = f.team_name /\ labels' = f.labels /\ nAth' = f.nAth
    /\ ai' = f.ai
    /\ result' = res
    /\ netlog' = log
    /\ returned' = IF f.pc = "done" THEN res ELSE returned
    /\ UNCHANGED <<date, cacheVars, pureVars>>

(* ----------------------- get_nba_data, its body ----------------------- *)
\* lines 59-80
FetchScoreboard ==
    /\ pc = "scoreboard"
    /\ \E resp \in ScoreboardResponses :
          /\ sbResp' = <<resp>>
          /\ games' = ScoreboardGames(resp)
          /\ Goto(IF games' = <<>> THEN AtReturn ELSE AtGame(1), <<>>,
                  <<ScoreboardCall>>)
    /\ UNCHANGED <<gameLog, last, unread, lackSeen>>

\* lines 83-95 (and 167-170 when the fetch raises)
FetchBoxscore ==
    /\ pc = "game"
    /\ \E resp \in BoxResponses :
          /\ gameLog' = Append(gameLog, [id |-> games[gi].id, kind |-> resp.kind,
                                         start |-> Len(result)])
          /\ LET log == Append(netlog, Call(games[gi].id))
             IN  CASE resp.kind = "fail" -> Goto(AfterGame, result, Append(log, Sleep))
                   [] resp.kind = "nobox" -> Goto(AfterGame, result, log)
                   [] OTHER ->
                        IF resp.n = 0 THEN Goto(AfterGame, result, Append(log, Sleep))
                        ELSE Goto(AtTeam(1, resp.n), result, log)
    /\ last' = <<>> /\ unread' = <<>> /\ lackSeen' = FALSE
    /\ UNCHANGED <<games, sbResp>>

\* lines 97-116 for one team
StartTeam ==
    /\ pc = "team"
    /\ \E t \in TeamHeads :
          CASE t.block = "none" ->
                  /\ Goto(AfterTeam, result, WithSleep(AfterTeam, netlog))
                  /\ UNCHANGED lackSeen
            [] t.block = "broken" ->
                  /\ Goto(AfterGame, result, Append(netlog, Sleep))
                  /\ UNCHANGED lackSeen
            [] OTHER ->
                  IF ~HasAllLabels(t.labels)
                  THEN /\ Goto(AfterTeam, result, WithSleep(AfterTeam, netlog))
                       /\ lackSeen' = TRUE
                  ELSE /\ IF t.n = 0
                          THEN Goto(AfterTeam, result, WithSleep(AfterTeam, netlog))
                          ELSE Goto(AtAthlete(1, t.name, t.labels, t.n), result,
                                    netlog)
                       /\ UNCHANGED lackSeen
    /\ last' = <<>> /\ unread' = <<>>
    /\ UNCHANGED <<games, sbResp, gameLog>>

\* lines 118-165 for one athlete entry
ProcessAthlete ==
    /\ pc = "athlete"
    /\ \E entry \in Entries(labels) :
          LET out == AthleteOutcome(entry, labels, team_name)
          IN  /\ last' = <<[entry |-> entry, labels |-> labels, kind |-> out.kind]>>
              /\ CASE out.kind = "keyerror" ->
                        /\ \E rest \in Rosters(nAth - ai, labels) : unread' = rest
                        /\ Goto(AfterGame, result, Append(netlog, Sleep))
                   [] out.kind = "emit" ->
                        /\ Len(result) < MaxRecords
                        /\ unread' = <<>>
                        /\ Goto(AfterAthlete, result \o out.rec,
                                WithSleep(AfterAthlete, netlog))
                   [] OTHER ->
                        /\ unread' = <<>>
                        /\ Goto(AfterAthlete, result, WithSleep(AfterAthlete, netlog))
    /\ UNCHANGED <<games, sbResp, gameLog, lackSeen>>

(* ------------------------- the result cache --------------------------- *)
\* a faulty variant of CacheKey: the key leaves the argument out
CacheKeyNoArgs(d) == "get_nba_data"

\* line 54: @st.cache_data keys an entry by the function and its arguments
CacheKey(d) == d

CacheKeys == {CacheKey(d) : d \in Dates}

\* line 54: an entry is served until ttl seconds after it was written
CacheHit(d) ==
    /\ cache[CacheKey(d)] # <<>>
    /\ now - cache[CacheKey(d)][1].at < TTL

\* the records get_nba_data can emit, and the lists it can return
PossibleRecords ==
    { AthleteOutcome(e, L, tn).rec[1] :
        <<e, L, tn>> \in { x \in UNION { Entries(L) \X {L} \X TeamNames :
                                          L \in CompleteLabels } :
                             AthleteOutcome(x[1], x[2], x[3]).kind = "emit" } }

PossibleResults == UNION { [1..n -> PossibleRecords] : n \in 0..MaxRecords }

\* the cached function is called: a fresh entry is returned, or the body runs
Invoke(d) ==
    /\ pc = "idle"
    /\ calls < MaxCalls
    /\ calls' = calls + 1
    /\ date' = d
    /\ IF CacheHit(d)
       THEN /\ returned' = cache[CacheKey(d)][1].val
            /\ pc' = "idle"
       ELSE /\ pc' = "body"
            /\ UNCHANGED returned
    /\ UNCHANGED <<bodyVars, cache, now, netCalls, stored, pureVars>>

\* lines 55-172 as one step of the cached function: one scoreboard call and
\* one box-score call per game, a list of records returned (the empty one
\* when there is no game), and the return value written to the cache
RunBody ==
    /\ pc = "body"
    /\ \E n \in 0..MaxGames, res \in PossibleResults :
          /\ (n = 0 => res = <<>>)
          /\ netCalls' = netCalls + 1 + n
          /\ returned' = res
          /\ cache' = [cache EXCEPT ![CacheKey(date)] = <<[val |-> res, at |-> now]>>]
          /\ stored' = [stored EXCEPT ![date] = <<[val |-> res, at |-> now]>>]
    /\ pc' = "idle"
    /\ UNCHANGED <<date, bodyVars, now, calls, pureVars>>

\* time passes between two calls
Tick ==
    /\ pc = "idle"
    /\ now + TickSecs <= MaxTicks * TickSecs
    /\ now' = now + TickSecs
    /\ UNCHANGED <<pc, date, returned, bodyVars, cache, calls, netCalls, stored,
                   pureVars>>

(* --------------------- the scoring and parsing calls ------------------ *)
CallDraftKings ==
    /\ dkOut = <<>>
    /\ dkOut' = <<calculate_draftkings(args.pts, args.three_pm, args.reb,
                                        args.ast, args.stl, args.blk, args.to)>>
    /\ UNCHANGED <<pc, date, returned, bodyVars, cacheVars, args, fdOut, recOut,
                   tok, statOut, shootOut>>

CallFanDuel ==
    /\ fdOut = <<>>
    /\ fdOut' = <<calculate_fanduel(args.pts, args.reb, args.ast, args.stl,
                                     args.blk, args.to)>>
    /\ UNCHANGED <<pc, date, returned, bodyVars, cacheVars, args, dkOut, recOut,
                   tok, statOut, shootOut>>

\* lines 147-163 on parsed stats
BuildRecord ==
    /\ recOut = <<>>
    /\ recOut' = <<ScoredPlayer("A", "G", "LAL", args.pts, args.reb, args.ast,
                                args.stl, args.blk, args.to, args.three_pm)>>
    /\ UNCHANGED <<pc, date, returned, bodyVars, cacheVars, args, dkOut, fdOut,
                   tok, statOut, shootOut>>

CallParseStat ==
    /\ statOut = <<>>
    /\ statOut' = <<parse_stat(tok)>>
    /\ UNCHANGED <<pc, date, returned, bodyVars, cacheVars, args, dkOut, fdOut,
                   recOut, tok, shootOut>>

CallParseShooting ==
    /\ shootOut = <<>>
    /\ shootOut' = <<parse_shooting(tok)>>
    /\ UNCHANGED <<pc, date, returned, bodyVars, cacheVars, args, dkOut, fdOut,
                   recOut, tok, statOut>>

(* --------------------------- specifications --------------------------- *)
NoArgs == [pts |-> 0, three_pm |-> 0, reb |-> 0, ast |-> 0, stl |-> 0,
           blk |-> 0, to |-> 0]

NoOutputs ==
    /\ dkOut = <<>> /\ fdOut = <<>> /\ recOut = <<>>
    /\ statOut = <<>> /\ shootOut = <<>>

BodyStart ==
    /\ games = <<>> /\ gi = 0 /\ nTeams = 0
    /\ ti = 0 /\ team_name = "" /\ labels = <<>> /\ nAth = 0 /\ ai = 0
    /\ result = <<>> /\ returned = <<>> /\ netlog = <<>>
    /\ sbResp = <<>> /\ gameLog = <<>> /\ last = <<>> /\ unread = <<>>
    /\ lackSeen = FALSE

CacheEmpty ==
    /\ cache = [k \in CacheKeys |-> <<>>]
    /\ now = 0 /\ calls = 0 /\ netCalls = 0
    /\ stored = [d \in Dates |-> <<>>]

\* one uncached run of get_nba_data
Init ==
    /\ pc = "scoreboard" /\ date \in Dates /\ BodyStart /\ CacheEmpty
    /\ args = NoArgs /\ tok = NotAString /\ NoOutputs

Next ==
    \/ FetchScoreboard
    \/ FetchBoxscore
    \/ StartTeam
    \/ ProcessAthlete

Spec == Init /\ [][Next]_vars

\* the cached function, called again and again as time passes
CacheInit ==
    /\ pc = "idle" /\ date = "" /\ BodyStart /\ CacheEmpty
    /\ args = NoArgs /\ tok = NotAString /\ NoOutputs

CacheNext ==
    \/ \E d \in Dates : Invoke(d)
    \/ RunBody
    \/ Tick

SpecCache == CacheInit /\ [][CacheNext]_vars

\* the scoring functions on every combination of stat values
ScoreInit ==
    /\ pc = "idle" /\ date = "" /\ BodyStart /\ CacheEmpty
    /\ args \in [pts : StatVals, three_pm : StatVals, reb : StatVals,
                 ast : StatVals, stl : StatVals, blk : StatVals, to : StatVals]
    /\ tok = NotAString /\ NoOutputs

ScoreNext ==
    \/ CallDraftKings
    \/ CallFanDuel
    \/ BuildRecord

SpecScore == ScoreInit /\ [][ScoreNext]_vars

\* the parsers on every token
ParseInit ==
    /\ pc = "idle" /\ date = "" /\ BodyStart /\ CacheEmpty
    /\ args = NoArgs /\ tok \in Tokens /\ NoOutputs

ParseNext ==
    \/ CallParseStat
    \/ CallParseShooting

SpecParse == ParseInit /\ [][ParseNext]_vars

(* ------------------------------ properties ---------------------------- *)
NeverEmits(entry, L) == AthleteOutcome(entry, L, "LAL").kind # "emit"

\* C1: when the entry the loop has just handled failed unexpectedly (a
\* missing key, or an exception while its values were parsed), only that
\* athlete is dropped: no athlete of the game that is valid on its own is
\* left without its record.
C1_OnlyThatAthleteDropped ==
    (last # <<>> /\ last[1].kind \in {"keyerror", "drop"})
        => \A k \in DOMAIN unread : NeverEmits(unread[k], last[1].labels)

\* what C2 says parse_shooting returns for a string token
ClaimedMakes(s) ==
    IF HasDash(s)
    THEN (IF isdigit(BeforeDash(s)) THEN DecimalValue(BeforeDash(s)) ELSE 0)
    ELSE IF isdigit(s) THEN DecimalValue(s) ELSE 0

\* C2: parse_shooting never fails: for every string token it returns the
\* integer before the first '-', or the integer the token is, and 0 in every
\* other case.
C2_ParseShootingTotal ==
    (shootOut # <<>> /\ tok.isStr) => shootOut[1] = Value(ClaimedMakes(tok.s))

\* C3: between the box-score fetch of a game and the box-score fetch of the
\* next game a pause always occurs, whatever the outcome of the first.
C3_PauseBetweenFetches ==
    \A k \in 1..(Len(netlog) - 1) :
        netlog[k].ev = "BOX" => netlog[k + 1].ev = "SLEEP"

\* the latest completed run for the date d is within the cache window
Fresh(d) == stored[d] # <<>> /\ now - stored[d][1].at < TTL

\* C4: a call with a date whose latest completed run is within the cache
\* window returns the result of that run and issues no network call; any
\* other call (another date, or the window expired) runs the body, which
\* issues network calls.
C4_CacheIdempotence ==
    [][ /\ (pc = "idle" /\ calls' = calls + 1) =>
              IF Fresh(date')
              THEN /\ pc' = "idle"
                   /\ returned' = stored[date'][1].val
                   /\ netCalls' = netCalls
              ELSE pc' = "body"
        /\ (pc = "body" /\ pc' = "idle") => netCalls' > netCalls ]_vars

C4_Witness ==
    /\ pc = "idle" /\ calls = 2
    /\ stored[date] # <<>> /\ stored[date][1].at = 0 /\ now > 0
    /\ \A d \in Dates \ {date} : stored[d] = <<>>
    /\ returned = stored[date][1].val /\ returned # <<>>

Fetches(log) == SelectSeq(log, LAMBDA e : e.ev # "SLEEP")

\* the number of records the i-th fetched game added to all_player_stats
Contribution(i) ==
    (IF i < Len(gameLog) THEN gameLog[i + 1].start ELSE Len(result))
    - gameLog[i].start

\* C5: in one uncached run the scoreboard call comes first and is the only
\* one, then one box-score call per game of the scoreboard list, in list
\* order; a game whose fetch failed is not fetched again and adds no record,
\* and at the return every game of the list has been fetched.
C5_OneFetchPerGameInOrder ==
    LET f == Fetches(netlog)
    IN  /\ (pc # "scoreboard") => (Len(f) >= 1 /\ f[1] = ScoreboardCall)
        /\ Len(f) <= 1 + Len(games)
        /\ \A k \in 2..Len(f) : f[k] = Call(games[k - 1].id)
        /\ Len(gameLog) = Len(f) - (IF pc = "scoreboard" THEN 0 ELSE 1)
        /\ \A i \in DOMAIN gameLog :
              gameLog[i].kind = "fail" => Contribution(i) = 0
        /\ (pc = "done") => Len(f) = 1 + Len(games)

C5_Witness ==
    /\ pc = "done" /\ Len(games) = 2
    /\ gameLog[1].kind = "fail" /\ gameLog[2].kind = "box"
    /\ Contribution(2) > 0

\* C6: a team lacking a required label adds no record, and every other team
\* of its game is still processed: in a game where a team was skipped for a
\* missing label, no athlete that is valid on its own is left without its
\* record.
C6_SiblingTeamsStillScored ==
    lackSeen => \A k \in DOMAIN unread : NeverEmits(unread[k], last[1].labels)

\* the scoreboard yields no games: the fetch or the parse failed, an event
\* is malformed, or there is no event
YieldsNoGames(resp) ==
    \/ ~resp.ok
    \/ resp.events = <<>>
    \/ \E k \in DOMAIN resp.events : ~resp.events[k]

\* C7: when the scoreboard yields no games, no box-score call is issued and
\* get_nba_data returns the empty sequence.
C7_NoGamesReturnsEmpty ==
    (sbResp # <<>> /\ YieldsNoGames(sbResp[1]))
        => /\ \A k \in DOMAIN netlog : netlog[k].ev # "BOX"
           /\ pc = "done"
           /\ returned = <<>>

C7_Witness ==
    /\ pc = "done" /\ sbResp # <<>> /\ sbResp[1].ok
    /\ sbResp[1].events = <<TRUE, FALSE>>
    /\ returned = <<>> /\ netlog = <<ScoreboardCall>>

\* the stats of an entry that has its 'athlete' key are missing, empty or
\* shorter than the labels
StatsMissingOrShort(entry, L) ==
    entry.athleteKey /\ (~entry.statsKey \/ Len(entry.stats) < Len(L))

\* C8: an entry whose stats are missing, empty or shorter than the labels
\* yields no record, and the athletes after it in the roster are still
\* processed (none is left unread).
C8_ShortStatsSkippedAlone ==
    (last # <<>> /\ StatsMissingOrShort(last[1].entry, last[1].labels))
        => (last[1].kind # "emit" /\ unread = <<>>)

\* the number of the five stats PTS, REB, AST, STL, BLK that are >= 10
DoubleDigitStats ==
    Cardinality({c \in {"pts", "reb", "ast", "stl", "blk"} : args[c] >= 10})

\* C9: calculate_draftkings returns PTS + 0.5 3PM + 1.25 REB + 1.5 AST
\* + 2 STL + 2 BLK - 0.5 TO plus exactly one bonus: 3 when at least three of
\* PTS, REB, AST, STL, BLK are >= 10, 1.5 when exactly two are, 0 otherwise.
C9_DraftKingsFormula ==
    dkOut # <<>> =>
        dkOut[1] * 10 =
            args.pts * 1000 + args.three_pm * 500 + args.reb * 1250
            + args.ast * 1500 + args.stl * 2000 + args.blk * 2000
            - args.to * 500
            + (IF DoubleDigitStats >= 3 THEN 3000
               ELSE IF DoubleDigitStats = 2 THEN 1500 ELSE 0)

C9_Witness ==
    /\ args = [pts |-> 9, three_pm |-> 10, reb |-> 10, ast |-> 10, stl |-> 0,
               blk |-> 0, to |-> 10]
    /\ DoubleDigitStats = 2
    /\ dkOut = <<3800>>

\* C10: calculate_fanduel returns PTS + 1.2 REB + 1.5 AST + 3 STL + 3 BLK
\* - TO with no bonus, and the FanDuel field of a record is that function
\* of the record's own PTS, REB, AST, STL, BLK and TO.
C10_FanDuelLinear ==
    /\ fdOut # <<>> =>
          fdOut[1] * 10 = args.pts * 1000 + args.reb * 1200 + args.ast * 1500
                          + args.stl * 3000 + args.blk * 3000 - args.to * 1000
    /\ recOut # <<>> =>
          recOut[1].FanDuel * 10 =
              recOut[1].PTS * 1000 + recOut[1].REB * 1200
              + recOut[1].AST * 1500 + recOut[1].STL * 3000
              + recOut[1].BLK * 3000 - recOut[1].TO * 1000

C10_Witness ==
    /\ fdOut # <<>> /\ recOut # <<>> /\ DoubleDigitStats >= 3
    /\ recOut[1].FanDuel = fdOut[1]
    /\ recOut[1].PTS = args.pts /\ recOut[1].TO = args.to /\ args.to > 0

====
